---- MODULE Spec2Model ----
(***************************************************************************)
(* One websocket session of the audio analysis backend:                    *)
(*   routers/audio.py            websocket_audio (the receive loop)        *)
(*   services/analysis_service.py AudioAnalyzer, PerformanceAnalyzer       *)
(*                                                                         *)
(* Number representation.  TLC has integers only, so every float of the    *)
(* program is held in a fixed unit:                                        *)
(*   amplitudes / RMS / noise floor : 1 / (32768 * 1000)                   *)
(*       (a sample of magnitude a normalises to a/32768, i.e. a * 1000)    *)
(*   frequencies                    : 1/100 Hz                             *)
(*   timestamps                     : 1/1000 s                             *)
(*   completion percentage          : 1/10 percent                         *)
(* Optional values (None) are written None == -1.                          *)
(* A JSON value is the record [t |-> type tag, v |-> integer]; a float is  *)
(* held in halves (1.5 is [t |-> "float", v |-> 3]).                       *)
(***************************************************************************)
EXTENDS Integers, Sequences, FiniteSets, TLC

VARIABLES
    \* ---- AudioAnalyzer fields
    total_bytes,              \* cumulative byte count
    pitch_detection_buffer,   \* retained samples, as runs [n, amp]
    onset_detected,           \* the onset latch
    onset_time,               \* ms, None before onset
    rms_history,              \* rolling window of RMS values
    noise_floor,              \* running noise floor estimate
    consecutive_loud_frames,  \* loudness persistence counter
    detected_pitches,         \* every pitch detected so far
    \* ---- PerformanceAnalyzer fields
    excerpt,                  \* "bound" or "none"
    expected_notes,           \* pitched notes of the excerpt
    current_note_index,       \* the cursor, a JSON value
    tempo,                    \* stored tempo, a JSON value
    \* ---- the connection
    open,                     \* the receive loop is running
    msg,                      \* the message handled last
    frame,                    \* the frame analyze_chunk returned last
    reply,                    \* what the handler of msg sent back
    warned,                   \* the handler of msg logged a warning
    \* ---- observers of the frames sent so far
    fired_before,             \* a frame of an earlier epoch reported onset
    fired_epoch,              \* frames reporting onset since creation or the last reset
    last_timestamp,           \* timestamp of the last analyzed frame, None if none yet
    epoch_timestamp,          \* the same since creation or the last reset
    heard,                    \* a non-zero sample was received since creation or the last reset
    epoch_bytes,              \* byte lengths of the chunks received since then, summed
    epoch_chunks,             \* chunks analyzed since then, counted up to min_history + 1
    epoch_pitches,            \* pitches the detector returned since then, in order
    picked,                   \* lag the peak search selected for that frame, None if it did not run
    \* ---- the pitch estimator on its own
    correlation,              \* normalized autocorrelation handed to the peak search, <<>> if none
    \* ---- a second connection served by the same process
    session,                  \* the connection whose handler runs, 1 or 2
    parked                    \* the session of the other connection (its
                              \* analyzer object and its loop's locals)

analyzer_vars == <<total_bytes, pitch_detection_buffer, onset_detected, onset_time,
                   rms_history, noise_floor, consecutive_loud_frames, detected_pitches>>
session_vars == <<excerpt, expected_notes, current_note_index, tempo>>
vars == <<total_bytes, pitch_detection_buffer, onset_detected, onset_time,
          rms_history, noise_floor, consecutive_loud_frames, detected_pitches,
          excerpt, expected_notes, current_note_index, tempo,
          open, msg, frame, reply, warned,
          fired_before, fired_epoch, last_timestamp, epoch_timestamp, heard,
          epoch_bytes, epoch_chunks, epoch_pitches, picked, correlation,
          session, parked>>
peer_vars == <<session, parked>>

None == -1

----------------------------------------------------------------------------
(* Program constants *)

sample_rate == 44100
min_samples_for_pitch == 2048
rms_window_size == 50
\* 0.001 in RMS units
noise_floor_init == 32768
\* 0.002, in thousandths
noise_floor_alpha == 2
adaptive_threshold_factor == 7
\* 0.015 in RMS units
min_slope_threshold == 491520
min_sustained_samples == 5
loudness_threshold_factor == 4
min_loud_frames == 6
\* history samples used for the slope
recent_samples == 8
\* history needed before onset may fire
min_history == 20
\* rms > noise_floor * 6.0
secondary_factor == 6
\* 0.002 in RMS units: the audibility threshold of _detect_pitch
min_amplitude == 65536
max_frequency == 2000
min_frequency == 50
default_tempo == 120
summary_pitches == 10

----------------------------------------------------------------------------
(* Bounds of the exploration *)

\* regular chunks that fit in one epoch (MaxBytes below)
MaxChunks == 22
\* pitches kept in detected_pitches before further detections are cut off
MaxPitches == 1

\* samples in a regular chunk (2048 bytes)
ChunkSamples == min_samples_for_pitch \div 2
\* samples in the oversized chunk that carries a stray byte
BigSamples == 12 * ChunkSamples

MaxBytes == MaxChunks * ChunkSamples * 2

\* regular chunks of a short recording
ShortChunks == 3
ShortBytes == ShortChunks * ChunkSamples * 2

\* chunks of the smallest size in a long stream
LongStream == 52
LongBytes == LongStream * (ChunkSamples \div 2) * 2
\* chunks each of two paired connections sends between resets
PairStream == 1
PairBytes == PairStream * min_samples_for_pitch * 2
\* lags in the range the peak search is tried on
SearchLen == 4
\* regular chunks of one sustained note: twenty up to its onset and five after
NoteChunks == 25
\* pitches kept in detected_pitches while a note is sustained
NotePitches == 11
NoteBytes == NoteChunks * ChunkSamples * 2

\* sample magnitudes a chunk can have: silence and six dynamic levels
Amps == {0, 1000, 2000, 3000, 4000, 5000, 6000}
TopAmp == CHOOSE a \in Amps : \A b \in Amps : b <= a
NextAmp(a) == a + 1000

\* lags the autocorrelation peak search can return (22 is min_period)
PeakLags == {22, 100}
\* further lags it returns on a played note: 4 to 93 cents sharp of A4
FineLags == {95, 97, 98, 99}

\* A chunk: n samples of magnitude amp (a square wave), plus stray trailing
\* bytes (0 or 1) that do not make up a 16-bit sample.
Chunk(n, amp, stray) == [n |-> n, amp |-> amp, stray |-> stray]
EmptyChunk == Chunk(0, 0, 0)
OddChunk == Chunk(BigSamples, 0, 1)
Chunks == {EmptyChunk, OddChunk} \cup {Chunk(ChunkSamples, a, 0) : a \in Amps}

\* a long stream: silence in chunks of half, one and three times the regular
\* size, notes in regular chunks
LongChunks == {Chunk(n, 0, 0) : n \in {ChunkSamples \div 2, ChunkSamples, 3 * ChunkSamples}}
                  \cup {Chunk(ChunkSamples, a, 0) : a \in Amps \ {0}}
\* the lag of a steady A4
SteadyLags == {100}
\* the lags of a sustained note that drifts sharp
NoteLags == {99, 100}

\* the chunk a paired connection sends: long enough for one pitch detection
PairChunks == {Chunk(min_samples_for_pitch, NextAmp(0), 0)}

\* len(chunk)
ChunkBytes(c) == 2 * c.n + c.stray

----------------------------------------------------------------------------
(* JSON values of control payloads *)

J(t, v) == [t |-> t, v |-> v]
JInt(v) == J("int", v)
JFloat(halves) == J("float", halves)
JStr == J("str", 0)
JNull == J("null", 0)
Missing == J("missing", 0)

\* payload.get(key, default)
PayloadGet(value, default) == IF value = Missing THEN default ELSE value

\* Python's  0 <= x < n  on a JSON value: "true", "false", or "TypeError"
InRange(x, n) ==
    CASE x.t = "int"   -> IF 0 <= x.v /\ x.v < n THEN "true" ELSE "false"
      [] x.t = "float" -> IF 0 <= x.v /\ x.v < 2 * n THEN "true" ELSE "false"
      [] OTHER         -> "TypeError"

----------------------------------------------------------------------------
(* note_to_frequency and the excerpt *)

\* equal temperament, A4 = 440 Hz, in 1/100 Hz; None for a rest or a bad name
note_to_frequency(note_name) ==
    CASE note_name = "A4" -> 44000
      [] note_name = "E5" -> 65926
      [] note_name = "A5" -> 88000
      [] OTHER            -> None

\* notes_and_rests of the excerpt the lookup resolves to
ScoreItems == <<"A4", "rest", "E5", "A5">>

RECURSIVE ExtractNotes(_)
\* _load_excerpt: keep the pitched notes that have a frequency
ExtractNotes(items) ==
    IF items = <<>> THEN <<>>
    ELSE LET pitch == Head(items)
             freq == note_to_frequency(pitch)
         IN  IF pitch # "rest" /\ freq # None
             THEN <<[pitch |-> pitch, frequency |-> freq]>> \o ExtractNotes(Tail(items))
             ELSE ExtractNotes(Tail(items))

\* a stock score used when the excerpt is not found
LoadExcerpt_Fallback(resolved) == ExtractNotes(ScoreItems)

\* __init__ / _load_excerpt: expected_notes stays [] when the lookup finds
\* nothing or raises (the exception is caught and logged)
LoadExcerpt(resolved) == IF resolved THEN ExtractNotes(ScoreItems) ELSE <<>>

----------------------------------------------------------------------------
(* AudioAnalyzer: signal helpers *)

RECURSIVE IsqrtIn(_, _, _)
IsqrtIn(x, lo, hi) ==
    IF lo >= hi THEN lo
    ELSE LET mid == (lo + hi + 1) \div 2
         IN  IF mid * mid <= x THEN IsqrtIn(x, mid, hi) ELSE IsqrtIn(x, lo, mid - 1)

\* integer square root of a mean square of 16-bit samples
Isqrt(x) == IsqrtIn(x, 0, 32768)

\* np.mean(audio ** 2), in squared sample units: all n samples have magnitude amp
MeanSquare(c) == c.amp * c.amp

\* rms = sqrt(mean(audio_float ** 2)), audio_float = audio_data / 32768.0
Rms(c) == 1000 * Isqrt(MeanSquare(c))

\* np.frombuffer(chunk, dtype=np.int16) raises when bytes are left over
DecodeFails(c) == c.stray # 0

\* the emptiness test left out
IsEmpty_Never(c) == FALSE

\* len(audio_data) == 0
IsEmpty(c) == c.n = 0

\* the division with its operands swapped
CurrentTime_Swapped(bytes) ==
    IF bytes = 0 THEN 0 ELSE (sample_rate * 2 * 1000) \div bytes

\* float(total_bytes) / float(sample_rate * 2), in ms
CurrentTime(bytes) == (bytes * 1000) \div (sample_rate * 2)

\* self.total_bytes += len(chunk)
AddBytes(total, length) == total + length

\* the history never trimmed
AppendRms_NoCap(history, rms) == Append(history, rms)

\* rms_history.append(rms); pop(0) once the window is exceeded
AppendRms(history, rms) ==
    LET appended == Append(history, rms)
    IN  IF Len(appended) > rms_window_size THEN Tail(appended) ELSE appended

\* noise floor: slow exponential average, only for rms < noise_floor * 1.5
UpdateNoiseFloor(floor, rms) ==
    IF 2 * rms < 3 * floor
    THEN ((1000 - noise_floor_alpha) * floor + noise_floor_alpha * rms) \div 1000
    ELSE floor

\* the floor estimate followed after the onset too
FloorAfter_Always(detected, floor, rms) == UpdateNoiseFloor(floor, rms)

\* the floor estimate is updated only while no onset has been detected
FloorAfter(detected, floor, rms) ==
    IF detected THEN floor ELSE UpdateNoiseFloor(floor, rms)

\* consecutive frames above noise_floor * loudness_threshold_factor
CountLoud(count, rms, floor) ==
    IF rms > floor * loudness_threshold_factor THEN count + 1 ELSE 0

\* the last k values of a history
Recent(history, k) == SubSeq(history, Len(history) - k + 1, Len(history))

\* rms_slope > min_slope_threshold, slope = (recent[-1] - recent[0]) / 7;
\* 0.0 when the history is shorter than 8
SlopeAbove(history) ==
    /\ Len(history) >= recent_samples
    /\ LET recent_rms == Recent(history, recent_samples)
       IN  recent_rms[recent_samples] - recent_rms[1]
             > (recent_samples - 1) * min_slope_threshold

\* the check satisfied by half of the pairs
SustainedIncrease_Half(history) ==
    /\ Len(history) >= recent_samples
    /\ LET recent_rms == Recent(history, recent_samples)
           increases == Cardinality({i \in 1..(min_sustained_samples - 1) :
                           recent_rms[recent_samples + 1 - i] > recent_rms[recent_samples - i]})
       IN  increases >= min_sustained_samples - 3

\* at least min_sustained_samples - 2 of the last 4 pairs increase
SustainedIncrease(history) ==
    /\ Len(history) >= recent_samples
    /\ LET recent_rms == Recent(history, recent_samples)
           increases == Cardinality({i \in 1..(min_sustained_samples - 1) :
                           recent_rms[recent_samples + 1 - i] > recent_rms[recent_samples - i]})
       IN  increases >= min_sustained_samples - 2

\* the onset decision taken on a history of any length
OnsetFires_NoHistory(history, rms, floor, loud) ==
    /\ loud >= min_loud_frames
    /\ rms > floor * adaptive_threshold_factor
    /\ SlopeAbove(history)
    /\ SustainedIncrease(history)
    /\ rms > floor * secondary_factor

\* the onset decision, on the updated history, floor and counter
OnsetFires(history, rms, floor, loud) ==
    /\ loud >= min_loud_frames
    /\ rms > floor * adaptive_threshold_factor
    /\ SlopeAbove(history)
    /\ SustainedIncrease(history)
    /\ Len(history) >= min_history
    /\ rms > floor * secondary_factor

\* the onset decision taken on a latched analyzer too
CurrentOnset_NoLatch(detected, history, rms, floor, loud) ==
    OnsetFires(history, rms, floor, loud)

\* current_onset: the decision is taken only while no onset has been detected
CurrentOnset(detected, history, rms, floor, loud) ==
    ~detected /\ OnsetFires(history, rms, floor, loud)

(* the pitch buffer, as a sequence of runs [n |-> samples, amp |-> magnitude] *)

RECURSIVE BufLen(_)
BufLen(buf) == IF buf = <<>> THEN 0 ELSE Head(buf).n + BufLen(Tail(buf))

RECURSIVE BufMaxAmp(_)
BufMaxAmp(buf) ==
    IF buf = <<>> THEN 0
    ELSE LET rest == BufMaxAmp(Tail(buf))
         IN  IF Head(buf).amp > rest THEN Head(buf).amp ELSE rest

\* np.concatenate([buffer, audio_float])
Concat(buf, c) ==
    IF buf # <<>> /\ buf[Len(buf)].amp = c.amp
    THEN [buf EXCEPT ![Len(buf)].n = @ + c.n]
    ELSE Append(buf, [n |-> c.n, amp |-> c.amp])

RECURSIVE KeepLast(_, _)
\* buffer[-keep_samples:]
KeepLast(buf, k) ==
    IF k <= 0 \/ buf = <<>> THEN <<>>
    ELSE LET last == buf[Len(buf)]
         IN  IF last.n >= k THEN <<[n |-> k, amp |-> last.amp]>>
             ELSE KeepLast(SubSeq(buf, 1, Len(buf) - 1), k - last.n) \o <<last>>

\* the trailing half of the buffer kept, whatever its length
TrimBuffer_Half(buf) == KeepLast(buf, BufLen(buf) \div 2)

\* keep_samples = min_samples_for_pitch // 2
TrimBuffer(buf) == KeepLast(buf, min_samples_for_pitch \div 2)

min_period == sample_rate \div max_frequency
max_period == sample_rate \div min_frequency

\* sample_rate / peak_index, in 1/100 Hz
Frequency(peak_index) == (sample_rate * 100) \div peak_index

\* the range check left out
InMusicalRange_Any(peak_index) == TRUE

\* 50 <= frequency <= 2000
InMusicalRange(peak_index) ==
    /\ min_frequency * peak_index <= sample_rate
    /\ sample_rate <= max_frequency * peak_index

\* the peak search of _detect_pitch is reached: the buffer is audible and
\* longer than the longest period searched
PeakSearched(buf) ==
    /\ BufLen(buf) >= min_samples_for_pitch
    /\ 1000 * BufMaxAmp(buf) >= min_amplitude
    /\ max_period < BufLen(buf)
    /\ max_period > min_period

\* the detector without its audibility threshold
DetectPitch_NoGate(buf, peak_index) ==
    IF max_period >= BufLen(buf) THEN None
    ELSE IF peak_index > 0 /\ InMusicalRange(peak_index) THEN Frequency(peak_index)
    ELSE None

(* The peak search of _detect_pitch, on a window of the normalized            *)
(* autocorrelation: its values, in tenths, at the lags min_period - 1 up to   *)
(* the first lag past the searched range.  The range 22..881 of the code is   *)
(* shortened to SearchLen lags.                                               *)

\* peak_threshold = 0.3, in tenths
peak_threshold == 3

\* values the normalized autocorrelation takes, in tenths
CorrLevels == {2, 3, 4, 5}

\* the windows the peak search is tried on
Windows == [1..(SearchLen + 2) -> CorrLevels]

\* search_range = correlation[min_period:max_period]
SearchRange(window) == SubSeq(window, 2, Len(window) - 1)

\* np.argmax(search_range): the first index, from 0, of the largest value
ArgMax(search_range) ==
    CHOOSE i \in 0..(Len(search_range) - 1) :
        /\ \A k \in 0..(Len(search_range) - 1) : search_range[i + 1] >= search_range[k + 1]
        /\ \A k \in 0..(i - 1) : search_range[k + 1] < search_range[i + 1]

\* the search returning the global maximum at once
PeakIndex_ArgMax(search_range) == ArgMax(search_range) + min_period

\* the loop over range(1, len(search_range) - 1) with its break, then the
\* fallback; indices i count from 0 as in the code
PeakIndex(search_range) ==
    LET peaks == {i \in 1..(Len(search_range) - 2) :
                    /\ search_range[i + 1] > search_range[i]
                    /\ search_range[i + 1] > search_range[i + 2]
                    /\ search_range[i + 1] > peak_threshold}
    IN  IF peaks # {}
        THEN (CHOOSE i \in peaks : \A k \in peaks : i <= k) + min_period
        ELSE ArgMax(search_range) + min_period

\* _detect_pitch.  The autocorrelation and its peak search are not computed
\* here: peak_index is the lag they select, an input in min_period..max_period-1.
DetectPitch(buf, peak_index) ==
    IF 1000 * BufMaxAmp(buf) < min_amplitude THEN None
    ELSE IF max_period >= BufLen(buf) THEN None
    ELSE IF max_period <= min_period THEN None
    ELSE IF peak_index > 0 /\ InMusicalRange(peak_index) THEN Frequency(peak_index)
    ELSE None

----------------------------------------------------------------------------
(* AudioAnalyzer.add_audio_chunk / _analyze_chunk *)

NoVerdict == [present |-> FALSE, expected_pitch |-> "", expected_frequency |-> None,
              cents_off |-> 0, pitch_accurate |-> FALSE, accuracy_level |-> "",
              is_right_note |-> FALSE, current_note_index |-> None]

Frame(status, rms, onset, pitch, time) ==
    [status |-> status, rms |-> rms, onset_detected |-> onset, pitch_hz |-> pitch,
     timestamp_seconds |-> time, verdict |-> NoVerdict]

NoFrame == Frame("none", None, FALSE, None, None)

\* The analyzer state after add_audio_chunk(chunk), with the frame it returns.
add_audio_chunk(c, peak_index) ==
    LET bytes == AddBytes(total_bytes, ChunkBytes(c))
        same == [total_bytes |-> bytes,
                 pitch_detection_buffer |-> pitch_detection_buffer,
                 onset_detected |-> onset_detected,
                 onset_time |-> onset_time,
                 rms_history |-> rms_history,
                 noise_floor |-> noise_floor,
                 consecutive_loud_frames |-> consecutive_loud_frames,
                 detected_pitches |-> detected_pitches,
                 analysis |-> NoFrame]
    IN
    IF DecodeFails(c) THEN [same EXCEPT !.analysis = Frame("error", None, FALSE, None, None)]
    ELSE IF IsEmpty(c) THEN [same EXCEPT !.analysis = Frame("empty", None, FALSE, None, None)]
    ELSE
    LET rms == Rms(c)
        current_time_seconds == CurrentTime(bytes)
        history == IF onset_detected THEN rms_history ELSE AppendRms(rms_history, rms)
        floor == FloorAfter(onset_detected, noise_floor, rms)
        loud == IF onset_detected THEN consecutive_loud_frames
                ELSE CountLoud(consecutive_loud_frames, rms, floor)
        current_onset == CurrentOnset(onset_detected, history, rms, floor, loud)
        buffer == Concat(pitch_detection_buffer, c)
        enough == BufLen(buffer) >= min_samples_for_pitch
        pitch == IF enough THEN DetectPitch(buffer, peak_index) ELSE None
    IN  [total_bytes |-> bytes,
         pitch_detection_buffer |-> IF enough THEN TrimBuffer(buffer) ELSE buffer,
         onset_detected |-> onset_detected \/ current_onset,
         onset_time |-> IF current_onset THEN current_time_seconds ELSE onset_time,
         rms_history |-> history,
         noise_floor |-> floor,
         consecutive_loud_frames |-> loud,
         detected_pitches |-> IF pitch # None /\ pitch > 0
                              THEN Append(detected_pitches, pitch) ELSE detected_pitches,
         analysis |-> Frame("analyzed", rms, current_onset,
                            IF pitch # None /\ pitch # 0 THEN pitch ELSE None,
                            current_time_seconds)]

\* AudioAnalyzer.get_summary
RECURSIVE SumSeq(_)
SumSeq(q) == IF q = <<>> THEN 0 ELSE Head(q) + SumSeq(Tail(q))

\* the report showing the most recent pitches
FirstPitches_Last(pitches) ==
    IF Len(pitches) < summary_pitches THEN pitches
    ELSE SubSeq(pitches, Len(pitches) - summary_pitches + 1, Len(pitches))

FirstPitches(pitches) ==
    SubSeq(pitches, 1, IF Len(pitches) < summary_pitches THEN Len(pitches) ELSE summary_pitches)

----------------------------------------------------------------------------
(* PerformanceAnalyzer *)

\* the gate without its onset condition
VerdictGate_NoOnset(analysis, onset_after) ==
    /\ expected_notes # <<>>
    /\ InRange(current_note_index, Len(expected_notes)) = "true"
    /\ analysis.pitch_hz # None

\* the verdict gate of analyze_chunk, on the analyzer state after the chunk
VerdictGate(analysis, onset_after) ==
    /\ expected_notes # <<>>
    /\ InRange(current_note_index, Len(expected_notes)) = "true"
    /\ analysis.pitch_hz # None
    /\ onset_after

(* cents_off = 1200 * log2(detected / expected), in whole cents and rounded
   away from zero; ratios are held in 1/10000, which makes the result right
   to within about a cent. *)
RatioScale == 10000

\* 2 ^ (2^k / 1200) for k = 0..11
PowCents(k) ==
    CASE k = 0 -> 10006 [] k = 1 -> 10012 [] k = 2 -> 10023 [] k = 3 -> 10046
      [] k = 4 -> 10093 [] k = 5 -> 10187 [] k = 6 -> 10377 [] k = 7 -> 10767
      [] k = 8 -> 11594 [] k = 9 -> 13441 [] k = 10 -> 18067 [] OTHER -> 32641

RECURSIVE CentsIn(_, _)
\* 1200 * log2(r / RatioScale) for r >= RatioScale, rounded up, by binary digits
CentsIn(r, k) ==
    IF k < 0 THEN (IF r > RatioScale THEN 1 ELSE 0)
    ELSE IF r >= PowCents(k)
         THEN 2^k + CentsIn((r * RatioScale) \div PowCents(k), k - 1)
         ELSE CentsIn(r, k - 1)

\* cents_off = 1200 * np.log2(detected_freq / expected_freq)
CentsOff(detected_freq, expected_freq) ==
    IF detected_freq >= expected_freq
    THEN CentsIn((detected_freq * RatioScale) \div expected_freq, 11)
    ELSE 0 - CentsIn((expected_freq * RatioScale) \div detected_freq, 11)

Abs(x) == IF x < 0 THEN 0 - x ELSE x

\* the "fair" band given to the next band down
AccuracyLevel_FairIsPoor(abs_cents) ==
    IF abs_cents <= 10 THEN "excellent"
    ELSE IF abs_cents <= 25 THEN "good"
    ELSE IF abs_cents <= 100 THEN "poor"
    ELSE "very_poor"

\* accuracy_level, from abs_cents = abs(cents_off)
AccuracyLevel(abs_cents) ==
    IF abs_cents <= 10 THEN "excellent"
    ELSE IF abs_cents <= 25 THEN "good"
    ELSE IF abs_cents <= 50 THEN "fair"
    ELSE IF abs_cents <= 100 THEN "poor"
    ELSE "very_poor"

\* is_accurate: set together with the level
PitchAccurate(abs_cents) == abs_cents <= 50

\* is_right_note = abs_cents <= 75
IsRightNote(abs_cents) == abs_cents <= 75

\* expected_notes[self.current_note_index] raises TypeError for a float index
IndexRaises(index) == index.t # "int"

\* the note compared against is always the first of the excerpt
ExpectedNote_First(index) == expected_notes[1]

\* expected_note = self.expected_notes[self.current_note_index]
ExpectedNote(index) == expected_notes[index.v + 1]

\* analyze_chunk: the analyzer state after the chunk, whether the call raised,
\* and the frame it returns otherwise
analyze_chunk(c, peak_index) ==
    LET a == add_audio_chunk(c, peak_index)
        gate == VerdictGate(a.analysis, a.onset_detected)
    IN  IF ~gate THEN [state |-> a, raised |-> FALSE, analysis |-> a.analysis]
        ELSE IF IndexRaises(current_note_index)
        THEN [state |-> a, raised |-> TRUE, analysis |-> NoFrame]
        ELSE LET expected_note == ExpectedNote(current_note_index)
                 cents_off == CentsOff(a.analysis.pitch_hz, expected_note.frequency)
                 abs_cents == Abs(cents_off)
             IN  [state |-> a, raised |-> FALSE,
                  analysis |-> [a.analysis EXCEPT !.verdict =
                      [present |-> TRUE,
                       expected_pitch |-> expected_note.pitch,
                       expected_frequency |-> expected_note.frequency,
                       cents_off |-> cents_off,
                       pitch_accurate |-> PitchAccurate(abs_cents),
                       accuracy_level |-> AccuracyLevel(abs_cents),
                       is_right_note |-> IsRightNote(abs_cents),
                       current_note_index |-> current_note_index.v]]]

\* truncation instead of rounding
RoundTenths_Floor(num, den) == num \div den

\* round(x, 1) of num/den, in tenths (ties to even)
RoundTenths(num, den) ==
    LET q == num \div den
        r == num % den
    IN  IF 2 * r < den THEN q
        ELSE IF 2 * r > den THEN q + 1
        ELSE IF q % 2 = 0 THEN q ELSE q + 1

\* the cursor counted as a played note
Completion_PlusOne(index, total) ==
    IF total = 0 THEN 0 ELSE RoundTenths((index.v + 1) * 1000, total)

\* (current_note_index / len(expected_notes)) * 100, rounded to one decimal
Completion(index, total) ==
    IF total = 0 THEN 0
    ELSE IF index.t = "float" THEN RoundTenths(index.v * 500, total)
    ELSE RoundTenths(index.v * 1000, total)

\* get_final_report
get_final_report ==
    [total_duration_seconds |-> CurrentTime(total_bytes),
     total_bytes_received |-> total_bytes,
     onset_detected |-> onset_detected,
     onset_time |-> IF onset_time # None /\ onset_time # 0 THEN onset_time ELSE None,
     detected_pitches |-> FirstPitches(detected_pitches),
     average_pitch_hz |-> IF detected_pitches # <<>>
                          THEN SumSeq(detected_pitches) \div Len(detected_pitches) ELSE None,
     num_pitch_detections |-> Len(detected_pitches),
     excerpt |-> excerpt,
     total_notes_in_score |-> Len(expected_notes),
     notes_played |-> current_note_index,
     completion_percentage |-> Completion(current_note_index, Len(expected_notes))]

\* the upper bound taken inclusive
set_current_note_index_Inclusive(note_index) ==
    LET inside == InRange(note_index, Len(expected_notes) + 1)
    IN  IF inside = "true" THEN "set" ELSE IF inside = "false" THEN "warn" ELSE "TypeError"

\* the rejection raising instead of logging
set_current_note_index_Raising(note_index) ==
    LET inside == InRange(note_index, Len(expected_notes))
    IN  IF inside = "true" THEN "set" ELSE "TypeError"

\* set_current_note_index: "set", "warn" (rejected and logged), "TypeError"
\* (the comparison raises) or "set_TypeError": a fractional index in range is
\* assigned, and the message printed next raises on expected_notes[note_index]
set_current_note_index(note_index) ==
    LET inside == InRange(note_index, Len(expected_notes))
    IN  IF inside = "true" THEN (IF note_index.t = "int" THEN "set" ELSE "set_TypeError")
        ELSE IF inside = "false" THEN "warn" ELSE "TypeError"

----------------------------------------------------------------------------
(* websocket_audio: the receive loop *)

Msg(kind, arg) == [kind |-> kind, arg |-> arg]
Reply(status) == [status |-> status, data |-> <<>>]
NoReply == Reply("none")

observer_vars == <<fired_before, fired_epoch, last_timestamp, epoch_timestamp, heard,
                   epoch_bytes, epoch_chunks, epoch_pitches>>

\* payloads a client sends with set_note_index and set_tempo
NoteIndexValues == {Missing, JInt(-1), JInt(2), JInt(3), JInt(4), JFloat(3), JStr}
TempoValues == {Missing, JInt(90), JStr}
TextKinds == {"not_json", "not_object"}
\* payload.get("command") of an object that names none of the four commands
OtherCommands == {JStr, Missing}
\* the payloads sent while a whole performance is played
FewNoteIndexValues == {JInt(2), JFloat(3)}
\* cursor moves while verdicts are produced: two notes of the excerpt and an
\* index past its end
VerdictNoteIndexValues == {JInt(1), JInt(2), JInt(3)}
FewTempoValues == {JInt(90)}
FewTextKinds == {"not_json"}

\* Before the onset the performer plays silence, then an attack that rises one
\* dynamic level per chunk, then holds the top level; afterwards anything.
PerformerPlays(c) ==
    \/ onset_detected
    \/ c.n = 0
    \/ DecodeFails(c)
    \/ LET last == IF rms_history = <<>> THEN 0
                   ELSE rms_history[Len(rms_history)] \div 1000
       IN  \/ c.amp = NextAmp(last)
           \/ c.amp = last /\ last \in {0, TopAmp}

\* Before the onset the peak search settles on one of PeakLags; on the
\* played note it can return the finer lags too.
DetectorPicks(peak_index) == onset_detected \/ peak_index \in PeakLags

Bump(n) == IF n < 2 THEN n + 1 ELSE n

\* the other connection has not been accepted yet
NoSession == [connected |-> FALSE]

\* everything that belongs to the connection whose handler runs
Park ==
    [connected |-> TRUE,
     total_bytes |-> total_bytes, pitch_detection_buffer |-> pitch_detection_buffer,
     onset_detected |-> onset_detected, onset_time |-> onset_time,
     rms_history |-> rms_history, noise_floor |-> noise_floor,
     consecutive_loud_frames |-> consecutive_loud_frames,
     detected_pitches |-> detected_pitches,
     excerpt |-> excerpt, expected_notes |-> expected_notes,
     current_note_index |-> current_note_index, tempo |-> tempo,
     open |-> open, msg |-> msg, frame |-> frame, reply |-> reply, warned |-> warned,
     fired_before |-> fired_before, fired_epoch |-> fired_epoch,
     last_timestamp |-> last_timestamp, epoch_timestamp |-> epoch_timestamp,
     heard |-> heard, epoch_bytes |-> epoch_bytes, epoch_chunks |-> epoch_chunks,
     epoch_pitches |-> epoch_pitches, picked |-> picked]

\* a connection right after accept() and PerformanceAnalyzer(excerpt_id)
Fresh(resolved) ==
    [connected |-> TRUE,
     total_bytes |-> 0, pitch_detection_buffer |-> <<>>,
     onset_detected |-> FALSE, onset_time |-> None,
     rms_history |-> <<>>, noise_floor |-> noise_floor_init,
     consecutive_loud_frames |-> 0,
     detected_pitches |-> <<>>,
     excerpt |-> IF resolved THEN "bound" ELSE "none",
     expected_notes |-> LoadExcerpt(resolved),
     current_note_index |-> JInt(0), tempo |-> JInt(default_tempo),
     open |-> TRUE, msg |-> Msg("none", JNull), frame |-> NoFrame, reply |-> NoReply,
     warned |-> FALSE,
     fired_before |-> FALSE, fired_epoch |-> 0,
     last_timestamp |-> None, epoch_timestamp |-> None,
     heard |-> FALSE, epoch_bytes |-> 0, epoch_chunks |-> 0,
     epoch_pitches |-> <<>>, picked |-> None]

Started ==
    /\ total_bytes = 0
    /\ pitch_detection_buffer = <<>>
    /\ onset_detected = FALSE
    /\ onset_time = None
    /\ rms_history = <<>>
    /\ noise_floor = noise_floor_init
    /\ consecutive_loud_frames = 0
    /\ detected_pitches = <<>>
    /\ \E resolved \in BOOLEAN :
         /\ excerpt = IF resolved THEN "bound" ELSE "none"
         /\ expected_notes = LoadExcerpt(resolved)
    /\ current_note_index = JInt(0)
    /\ tempo = JInt(default_tempo)
    /\ open = TRUE
    /\ msg = Msg("none", JNull)
    /\ frame = NoFrame
    /\ reply = NoReply
    /\ warned = FALSE
    /\ fired_before = FALSE
    /\ fired_epoch = 0
    /\ last_timestamp = None
    /\ epoch_timestamp = None
    /\ heard = FALSE
    /\ epoch_bytes = 0
    /\ epoch_chunks = 0
    /\ epoch_pitches = <<>>
    /\ picked = None
    /\ session = 1
    /\ parked = NoSession

\* the state after the connection is accepted
Init == Started /\ correlation = <<>>

\* a binary frame: analyzer.analyze_chunk(chunk), then the reply.
\* limit bounds the bytes of one epoch, cap the pitches detected in it.
RecvChunk(c, peak_index, limit, cap) ==
    /\ open
    /\ total_bytes + ChunkBytes(c) <= limit
    /\ DetectorPicks(peak_index)
    /\ PerformerPlays(c)
    /\ \E r \in {analyze_chunk(c, peak_index)} :
       LET reported == ~r.raised /\ r.analysis.onset_detected
           analyzed == ~r.raised /\ r.analysis.status = "analyzed"
       IN  /\ Len(r.state.detected_pitches) <= cap
           /\ total_bytes' = r.state.total_bytes
           /\ pitch_detection_buffer' = r.state.pitch_detection_buffer
           /\ onset_detected' = r.state.onset_detected
           /\ onset_time' = r.state.onset_time
           /\ rms_history' = r.state.rms_history
           /\ noise_floor' = r.state.noise_floor
           /\ consecutive_loud_frames' = r.state.consecutive_loud_frames
           /\ detected_pitches' = r.state.detected_pitches
           /\ frame' = r.analysis
           /\ reply' = IF r.raised THEN Reply("error") ELSE Reply("analyzed")
           /\ fired_before' = fired_before
           /\ fired_epoch' = IF reported THEN Bump(fired_epoch) ELSE fired_epoch
           /\ last_timestamp' = IF analyzed THEN r.analysis.timestamp_seconds
                                ELSE last_timestamp
           /\ epoch_timestamp' = IF analyzed THEN r.analysis.timestamp_seconds
                                 ELSE epoch_timestamp
           /\ heard' = (heard \/ (c.n > 0 /\ c.amp > 0))
           /\ epoch_bytes' = epoch_bytes + ChunkBytes(c)
           /\ epoch_chunks' = IF r.state.analysis.status = "analyzed" /\ epoch_chunks <= min_history
                              THEN epoch_chunks + 1 ELSE epoch_chunks
           /\ epoch_pitches' = IF r.state.analysis.pitch_hz # None
                               THEN Append(epoch_pitches, r.state.analysis.pitch_hz)
                               ELSE epoch_pitches
           /\ picked' = IF r.state.analysis.status = "analyzed"
                            /\ PeakSearched(Concat(pitch_detection_buffer, c))
                         THEN peak_index ELSE None
    /\ msg' = Msg("chunk", JInt(ChunkBytes(c)))
    /\ UNCHANGED <<peer_vars, correlation>>
    /\ warned' = FALSE
    /\ UNCHANGED <<session_vars, open>>

\* {"command": "get_summary"}
GetSummary ==
    /\ open
    /\ msg' = Msg("get_summary", JNull)
    /\ UNCHANGED <<peer_vars, correlation>>
    /\ reply' = [status |-> "summary", data |-> get_final_report]
    /\ frame' = NoFrame
    /\ picked' = None
    /\ warned' = FALSE
    /\ UNCHANGED <<analyzer_vars, session_vars, open, observer_vars>>

\* reset that keeps the detected pitches
AudioReset_KeepsPitches ==
    /\ total_bytes' = 0
    /\ pitch_detection_buffer' = <<>>
    /\ onset_detected' = FALSE
    /\ onset_time' = None
    /\ detected_pitches' = detected_pitches
    /\ rms_history' = <<>>
    /\ noise_floor' = noise_floor_init
    /\ consecutive_loud_frames' = 0

\* reset that keeps the noise floor estimate
AudioReset_KeepsFloor ==
    /\ total_bytes' = 0
    /\ pitch_detection_buffer' = <<>>
    /\ onset_detected' = FALSE
    /\ onset_time' = None
    /\ detected_pitches' = <<>>
    /\ rms_history' = <<>>
    /\ noise_floor' = noise_floor
    /\ consecutive_loud_frames' = 0

\* reset that keeps the recorded onset time
AudioReset_KeepsOnsetTime ==
    /\ total_bytes' = 0
    /\ pitch_detection_buffer' = <<>>
    /\ onset_detected' = FALSE
    /\ onset_time' = onset_time
    /\ detected_pitches' = <<>>
    /\ rms_history' = <<>>
    /\ noise_floor' = noise_floor_init
    /\ consecutive_loud_frames' = 0

\* AudioAnalyzer.reset
AudioReset ==
    /\ total_bytes' = 0
    /\ pitch_detection_buffer' = <<>>
    /\ onset_detected' = FALSE
    /\ onset_time' = None
    /\ detected_pitches' = <<>>
    /\ rms_history' = <<>>
    /\ noise_floor' = noise_floor_init
    /\ consecutive_loud_frames' = 0

\* reset of an analyzer that the connections of one excerpt share
Reset_Shared ==
    /\ open
    /\ AudioReset
    /\ current_note_index' = JInt(0)
    /\ msg' = Msg("reset", JNull)
    /\ reply' = Reply("reset")
    /\ frame' = NoFrame
    /\ picked' = None
    /\ warned' = FALSE
    /\ fired_before' = (fired_before \/ fired_epoch > 0)
    /\ fired_epoch' = 0
    /\ epoch_timestamp' = None
    /\ heard' = FALSE
    /\ epoch_bytes' = 0
    /\ epoch_chunks' = 0
    /\ epoch_pitches' = <<>>
    /\ session' = session
    /\ UNCHANGED correlation
    /\ parked' = IF parked.connected /\ parked.excerpt = excerpt
                 THEN [parked EXCEPT !.current_note_index = JInt(0), !.total_bytes = 0,
                                     !.detected_pitches = <<>>]
                 ELSE parked
    /\ UNCHANGED <<excerpt, expected_notes, tempo, open, last_timestamp>>

\* {"command": "reset"}: PerformanceAnalyzer.reset
Reset ==
    /\ open
    /\ AudioReset
    /\ current_note_index' = JInt(0)
    /\ msg' = Msg("reset", JNull)
    /\ UNCHANGED <<peer_vars, correlation>>
    /\ reply' = Reply("reset")
    /\ frame' = NoFrame
    /\ picked' = None
    /\ warned' = FALSE
    /\ fired_before' = (fired_before \/ fired_epoch > 0)
    /\ fired_epoch' = 0
    /\ epoch_timestamp' = None
    /\ heard' = FALSE
    /\ epoch_bytes' = 0
    /\ epoch_chunks' = 0
    /\ epoch_pitches' = <<>>
    /\ UNCHANGED <<excerpt, expected_notes, tempo, open, last_timestamp>>

\* {"command": "set_note_index", "note_index": value}
SetNoteIndex(value) ==
    /\ open
    /\ LET note_index == PayloadGet(value, JInt(0))
           outcome == set_current_note_index(note_index)
       IN  /\ current_note_index' = IF outcome \in {"set", "set_TypeError"} THEN note_index
                                    ELSE current_note_index
           /\ warned' = (outcome = "warn")
           /\ reply' = IF outcome \in {"TypeError", "set_TypeError"}
                       THEN Reply("error") ELSE NoReply
    /\ msg' = Msg("set_note_index", value)
    /\ UNCHANGED <<peer_vars, correlation>>
    /\ frame' = NoFrame
    /\ picked' = None
    /\ UNCHANGED <<analyzer_vars, excerpt, expected_notes, tempo, open, observer_vars>>

\* {"command": "set_tempo", "tempo": value}
SetTempo(value) ==
    /\ open
    /\ tempo' = PayloadGet(value, JInt(default_tempo))
    /\ msg' = Msg("set_tempo", value)
    /\ UNCHANGED <<peer_vars, correlation>>
    /\ reply' = NoReply
    /\ frame' = NoFrame
    /\ picked' = None
    /\ warned' = FALSE
    /\ UNCHANGED <<analyzer_vars, excerpt, expected_notes, current_note_index, open,
                   observer_vars>>

\* an acknowledgment that falls through to the cursor reset
OtherCommand_Resets(command) ==
    /\ open
    /\ msg' = Msg("other", command)
    /\ UNCHANGED <<peer_vars, correlation>>
    /\ reply' = Reply("ok")
    /\ frame' = NoFrame
    /\ picked' = None
    /\ warned' = FALSE
    /\ current_note_index' = JInt(0)
    /\ UNCHANGED <<analyzer_vars, excerpt, expected_notes, tempo, open, observer_vars>>

\* any other JSON object: the generic acknowledgment.  command is the value
\* of payload.get("command"): a string that names no command, or Missing.
OtherCommand(command) ==
    /\ open
    /\ msg' = Msg("other", command)
    /\ UNCHANGED <<peer_vars, correlation>>
    /\ reply' = Reply("ok")
    /\ frame' = NoFrame
    /\ picked' = None
    /\ warned' = FALSE
    /\ UNCHANGED <<analyzer_vars, session_vars, open, observer_vars>>

\* the exception of the text branch escaping the loop
BadText_Fatal(kind) ==
    /\ open
    /\ open' = FALSE
    /\ msg' = Msg(kind, JNull)
    /\ UNCHANGED <<peer_vars, correlation>>
    /\ reply' = NoReply
    /\ frame' = NoFrame
    /\ picked' = None
    /\ warned' = FALSE
    /\ UNCHANGED <<analyzer_vars, session_vars, observer_vars>>

\* text that json.loads rejects, or JSON that is no object (payload.get raises)
BadText(kind) ==
    /\ open
    /\ msg' = Msg(kind, JNull)
    /\ UNCHANGED <<peer_vars, correlation>>
    /\ reply' = Reply("error")
    /\ frame' = NoFrame
    /\ picked' = None
    /\ warned' = FALSE
    /\ UNCHANGED <<analyzer_vars, session_vars, open, observer_vars>>

\* websocket.disconnect: the final report is printed and the loop ends
Disconnect ==
    /\ open
    /\ open' = FALSE
    /\ msg' = Msg("disconnect", JNull)
    /\ UNCHANGED <<peer_vars, correlation>>
    /\ reply' = NoReply
    /\ frame' = NoFrame
    /\ picked' = None
    /\ warned' = FALSE
    /\ UNCHANGED <<analyzer_vars, session_vars, observer_vars>>

\* websocket.send_text raises while the reply to msg is sent: the exception
\* leaves the loop, the socket is closed, the reply is lost
WriteFailure ==
    /\ open
    /\ reply.status # "none"
    /\ open' = FALSE
    /\ msg' = Msg("write_failure", JNull)
    /\ UNCHANGED <<peer_vars, correlation>>
    /\ reply' = NoReply
    /\ frame' = NoFrame
    /\ picked' = None
    /\ warned' = FALSE
    /\ UNCHANGED <<analyzer_vars, session_vars, observer_vars>>

\* a second client connects: its coroutine creates its own analyzer
Connect(resolved) ==
    /\ ~parked.connected
    /\ parked' = Fresh(resolved)
    /\ UNCHANGED <<analyzer_vars, session_vars, open, msg, frame, reply, warned,
                   observer_vars, picked, correlation, session>>

\* The event loop resumes the other connection's coroutine.  A handler has
\* no await between receive() and its send_text, so the coroutines interleave
\* handler by handler.
Switch ==
    /\ parked.connected
    /\ session' = 3 - session
    /\ parked' = Park
    /\ UNCHANGED correlation
    /\ total_bytes' = parked.total_bytes
    /\ pitch_detection_buffer' = parked.pitch_detection_buffer
    /\ onset_detected' = parked.onset_detected
    /\ onset_time' = parked.onset_time
    /\ rms_history' = parked.rms_history
    /\ noise_floor' = parked.noise_floor
    /\ consecutive_loud_frames' = parked.consecutive_loud_frames
    /\ detected_pitches' = parked.detected_pitches
    /\ excerpt' = parked.excerpt
    /\ expected_notes' = parked.expected_notes
    /\ current_note_index' = parked.current_note_index
    /\ tempo' = parked.tempo
    /\ open' = parked.open
    /\ msg' = parked.msg
    /\ frame' = parked.frame
    /\ reply' = parked.reply
    /\ warned' = parked.warned
    /\ fired_before' = parked.fired_before
    /\ fired_epoch' = parked.fired_epoch
    /\ last_timestamp' = parked.last_timestamp
    /\ epoch_timestamp' = parked.epoch_timestamp
    /\ heard' = parked.heard
    /\ epoch_bytes' = parked.epoch_bytes
    /\ epoch_chunks' = parked.epoch_chunks
    /\ epoch_pitches' = parked.epoch_pitches
    /\ picked' = parked.picked

\* one iteration of the receive loop, with the inputs drawn from the given sets
Loop(limit, indices, tempos, texts) ==
    \/ \E c \in Chunks, peak_index \in PeakLags : RecvChunk(c, peak_index, limit, MaxPitches)
    \/ GetSummary
    \/ Reset
    \/ \E value \in indices : SetNoteIndex(value)
    \/ \E value \in tempos : SetTempo(value)
    \/ \E command \in OtherCommands : OtherCommand(command)
    \/ \E kind \in texts : BadText(kind)
    \/ Disconnect
    \/ WriteFailure

\* whole performances (MaxChunks chunks an epoch) with few control payloads
Next == Loop(MaxBytes, FewNoteIndexValues, FewTempoValues, FewTextKinds)
Spec == Init /\ [][Next]_vars

\* whole performances with every lag of the peak search, and cursor moves
VerdictNext ==
    \/ \E c \in Chunks, peak_index \in PeakLags \cup FineLags :
          RecvChunk(c, peak_index, MaxBytes, MaxPitches)
    \/ \E value \in VerdictNoteIndexValues : SetNoteIndex(value)
VerdictSpec == Init /\ [][VerdictNext]_vars

\* long streams of chunks of several sizes, with summaries
LongNext ==
    \/ \E c \in LongChunks, peak_index \in SteadyLags :
          RecvChunk(c, peak_index, LongBytes, MaxPitches)
    \/ GetSummary
LongSpec == Init /\ [][LongNext]_vars

\* the sustained note never drifts flat: the lag selected is no longer than
\* the one of the pitch detected last
DriftsSharp(peak_index) ==
    IF detected_pitches = <<>> THEN TRUE
    ELSE Frequency(peak_index) >= detected_pitches[Len(detected_pitches)]

\* one sustained note, detected in every chunk and drifting sharp at most
\* once, with summaries and resets
NoteNext ==
    \/ \E c \in Chunks, peak_index \in NoteLags :
          DriftsSharp(peak_index) /\ RecvChunk(c, peak_index, NoteBytes, NotePitches)
    \/ GetSummary
    \/ Reset
NoteSpec == Init /\ [][NoteNext]_vars

\* two connections, each sending one long chunk, cursor moves, resets and
\* summary requests
PairNext ==
    \/ \E resolved \in BOOLEAN : Connect(resolved)
    \/ Switch
    \/ \E c \in PairChunks, peak_index \in SteadyLags :
          RecvChunk(c, peak_index, PairBytes, MaxPitches)
    \/ GetSummary
    \/ Reset
    \/ \E value \in FewNoteIndexValues : SetNoteIndex(value)
PairSpec == Init /\ [][PairNext]_vars

\* short recordings with every control payload
ControlNext == Loop(ShortBytes, NoteIndexValues, TempoValues, TextKinds)
ControlSpec == Init /\ [][ControlNext]_vars

\* the peak search applied to a window of the autocorrelation
FindPeak ==
    /\ correlation # <<>>
    /\ picked = None
    /\ picked' = PeakIndex(SearchRange(correlation))
    /\ UNCHANGED <<analyzer_vars, session_vars, open, msg, frame, reply, warned,
                   observer_vars, correlation, peer_vars>>

\* the pitch estimator on its own, on every window
PeakInit == Started /\ correlation \in Windows
PeakNext == FindPeak
PeakSpec == PeakInit /\ [][PeakNext]_vars

----------------------------------------------------------------------------
(* Properties.  A step whose msg' has kind k is a step of the handler of k,  *)
(* and frame, reply and warned describe what that handler produced.          *)

\* some frame of this session has reported onset_detected = true
OnsetReported == fired_before \/ fired_epoch > 0

\* C1 as stated: once a frame has reported onset_detected = true, no later
\* frame of the session reports it again, whatever chunks and commands follow.
C1_NeverFiresAgain == [][OnsetReported => ~frame'.onset_detected]_vars

\* C1 amended: between two resets at most one frame reports onset_detected =
\* true; chunks, set_note_index, set_tempo and get_summary never re-arm it.
C1_OneOnsetPerEpoch == fired_epoch <= 1

\* a loud chunk analyzed after the onset of its epoch, reporting no onset
C1_Witness ==
    /\ fired_epoch = 1
    /\ frame.status = "analyzed"
    /\ ~frame.onset_detected
    /\ frame.rms >= 1000 * TopAmp

\* C2: a returned frame carries a verdict exactly when the sequence is
\* non-empty, the cursor is inside [0, length), the frame has a pitch and the
\* onset has fired; so no frame before the onset carries one.
C2_VerdictGate ==
    (msg.kind = "chunk" /\ frame.status # "none") =>
        (frame.verdict.present <=>
            /\ Len(expected_notes) > 0
            /\ current_note_index.v >= 0
            /\ current_note_index.v
                 < (IF current_note_index.t = "float" THEN 2 ELSE 1) * Len(expected_notes)
            /\ frame.pitch_hz # None
            /\ onset_detected)

\* a frame with a verdict, after the onset
C2_Witness ==
    /\ frame.verdict.present
    /\ frame.pitch_hz # None
    /\ onset_detected
    /\ ~frame.onset_detected

\* C3: set_note_index with an integer outside [0, length) changes no field
\* of the session state and raises nothing.
C3_OutOfRangeIgnored ==
    [][(/\ msg'.kind = "set_note_index"
        /\ msg'.arg.t = "int"
        /\ (msg'.arg.v < 0 \/ msg'.arg.v >= Len(expected_notes)))
       => (/\ UNCHANGED <<analyzer_vars, session_vars>>
           /\ reply'.status # "error"
           /\ open')]_vars

\* index = length rejected while the cursor sits on the last note
C3_Witness ==
    /\ msg = Msg("set_note_index", JInt(Len(expected_notes)))
    /\ current_note_index = JInt(2)
    /\ warned

\* C4 as stated: a set_note_index whose index is >= the length is answered
\* with a rejection reply.
C4_RejectionReply ==
    (/\ msg.kind = "set_note_index"
     /\ msg.arg.t = "int"
     /\ msg.arg.v >= Len(expected_notes)) => reply.status # "none"

\* C4 amended: such a message is answered with no reply at all; the
\* rejection is a logged warning only.
C4_RejectionLoggedOnly ==
    (/\ msg.kind = "set_note_index"
     /\ msg.arg.t = "int"
     /\ msg.arg.v >= Len(expected_notes)) => (reply.status = "none" /\ warned)

\* index = length + 1 rejected on a session with notes
C4_Witness ==
    /\ msg = Msg("set_note_index", JInt(4))
    /\ Len(expected_notes) = 3
    /\ warned
    /\ reply.status = "none"

\* C5: reset clears the onset flag and the detected pitches, zeroes the
\* cursor, and keeps the expected notes and the excerpt binding.
C5_ResetRestores ==
    [][msg'.kind = "reset" =>
         /\ onset_detected' = FALSE
         /\ detected_pitches' = <<>>
         /\ current_note_index' = JInt(0)
         /\ expected_notes' = expected_notes
         /\ excerpt' = excerpt]_vars

\* a reset of a session with notes that ends an epoch in which onset fired
C5_Witness ==
    /\ msg.kind = "reset"
    /\ fired_before
    /\ expected_notes # <<>>
    /\ ~onset_detected

\* C6 as stated: after reset every field, the stored tempo included, has the
\* value of a freshly created session.
C6_ResetIsFresh ==
    msg.kind = "reset" =>
        /\ total_bytes = 0
        /\ pitch_detection_buffer = <<>>
        /\ rms_history = <<>>
        /\ noise_floor = noise_floor_init
        /\ consecutive_loud_frames = 0
        /\ onset_detected = FALSE
        /\ onset_time = None
        /\ detected_pitches = <<>>
        /\ current_note_index = JInt(0)
        /\ tempo = JInt(default_tempo)

\* C6 amended: after reset every field but the stored tempo has the value of
\* a freshly created session; the tempo is the one stored before the reset.
C6_ResetIsFreshButTempo ==
    [][msg'.kind = "reset" =>
         /\ total_bytes' = 0
         /\ pitch_detection_buffer' = <<>>
         /\ rms_history' = <<>>
         /\ noise_floor' = noise_floor_init
         /\ consecutive_loud_frames' = 0
         /\ onset_detected' = FALSE
         /\ onset_time' = None
         /\ detected_pitches' = <<>>
         /\ current_note_index' = JInt(0)
         /\ tempo' = tempo]_vars

\* a reset after an onset, with a tempo the client had set
C6_Witness ==
    /\ msg.kind = "reset"
    /\ tempo = JInt(90)
    /\ fired_before
    /\ total_bytes = 0

\* the cursor is on the last note of a non-empty sequence, in a summary
AtLastNote ==
    /\ reply.status = "summary"
    /\ expected_notes # <<>>
    /\ current_note_index = JInt(Len(expected_notes) - 1)

\* C7 as stated: completion is 100.0 when the cursor is the last valid index.
C7_CompleteAtLastNote == AtLastNote => reply.data.completion_percentage = 1000

\* C7 amended: with the cursor on the last valid index, completion is
\* (length - 1) / length * 100 rounded to one decimal (66.7 for three notes).
C7_LastNoteCompletion ==
    AtLastNote =>
        LET total == Len(expected_notes)
            shown == reply.data.completion_percentage
            exact == (total - 1) * 1000
        IN  /\ 2 * (shown * total - exact) <= total
            /\ 2 * (exact - shown * total) <= total

\* a summary with the cursor on the last of three notes: 66.7
C7_Witness == AtLastNote /\ reply.data.completion_percentage = 667

\* C8: completion is cursor / total * 100 rounded to one decimal, 0 for an
\* empty sequence; the note count and the cursor in the report are the
\* session's.
C8_ReportCompletion ==
    reply.status = "summary" =>
        LET total == Len(expected_notes)
            shown == reply.data.completion_percentage
            \* cursor * 1000, the cursor being held in halves when a float
            exact == IF current_note_index.t = "float"
                     THEN current_note_index.v * 500 ELSE current_note_index.v * 1000
        IN  /\ reply.data.total_notes_in_score = total
            /\ reply.data.notes_played = current_note_index
            /\ total = 0 => shown = 0
            /\ total > 0 => /\ 2 * (shown * total - exact) <= total
                            /\ 2 * (exact - shown * total) <= total

\* a summary whose completion needed rounding up
C8_Witness ==
    /\ reply.status = "summary"
    /\ current_note_index = JInt(2)
    /\ reply.data.total_notes_in_score = 3
    /\ reply.data.completion_percentage = 667

\* C9 as stated: the timestamp of an analyzed frame is never below that of
\* the analyzed frame before it, whatever commands come in between.
C9_TimestampsNeverDecrease ==
    [][(frame'.status = "analyzed" /\ last_timestamp # None)
       => frame'.timestamp_seconds >= last_timestamp]_vars

\* C9 amended: the same between two resets; a reset restarts the timestamps.
C9_TimestampsPerEpoch ==
    [][(frame'.status = "analyzed" /\ epoch_timestamp # None)
       => frame'.timestamp_seconds >= epoch_timestamp]_vars

\* a third analyzed frame of an epoch that follows a reset
C9_Witness ==
    /\ frame.status = "analyzed"
    /\ fired_before
    /\ total_bytes = 3 * 2 * ChunkSamples
    /\ frame.timestamp_seconds = epoch_timestamp
    /\ frame.timestamp_seconds > 0

\* C10: a malformed control message is rejected with a warning or an error
\* reply, changes no field of the session state and leaves the loop running.
C10_MalformedRejected ==
    [][(\/ msg'.kind \in {"not_json", "not_object"}
        \/ /\ msg'.kind \in {"set_note_index", "set_tempo"}
           /\ msg'.arg.t \in {"missing", "str", "float"})
       => (/\ UNCHANGED <<analyzer_vars, session_vars>>
           /\ (warned' \/ reply'.status = "error")
           /\ open')]_vars

\* C11: a chunk that cannot be decoded as 16-bit samples yields a frame with
\* error status, sent as a normal reply, and leaves every field of the session
\* state as it was, the cumulative byte count included.
C11_DecodeErrorLeavesState ==
    [][(msg'.kind = "chunk" /\ msg'.arg.v % 2 = 1)
       => (/\ frame'.status = "error"
           /\ reply'.status = "analyzed"
           /\ UNCHANGED <<analyzer_vars, session_vars>>)]_vars

\* C12: a chunk of zero samples yields the frame {"status": "empty"}, with no
\* rms, onset, pitch or verdict, and changes no field of the session state.
C12_EmptyChunkIgnored ==
    [][(msg'.kind = "chunk" /\ msg'.arg = JInt(0))
       => (/\ frame' = Frame("empty", None, FALSE, None, None)
           /\ reply'.status = "analyzed"
           /\ UNCHANGED <<analyzer_vars, session_vars>>)]_vars

\* an empty chunk received after the onset, with a pitch on record
C12_Witness ==
    /\ msg = Msg("chunk", JInt(0))
    /\ frame.status = "empty"
    /\ onset_detected
    /\ detected_pitches # <<>>
    /\ pitch_detection_buffer # <<>>

\* C16: when the excerpt is not resolved the session exists with no expected
\* notes, every chunk is answered normally, and an analyzed frame carries rms,
\* onset_detected and pitch_hz but never a verdict.
C16_AudioOnlyMode ==
    excerpt = "none" =>
        /\ expected_notes = <<>>
        /\ msg.kind = "chunk" => reply.status = "analyzed"
        /\ frame.status = "analyzed" =>
             /\ ~frame.verdict.present
             /\ frame.rms # None
             /\ frame.onset_detected \in BOOLEAN
             /\ frame.timestamp_seconds # None

\* an unresolved session past its onset analyzes a frame with a pitch
C16_Witness ==
    /\ excerpt = "none"
    /\ onset_detected
    /\ frame.status = "analyzed"
    /\ frame.pitch_hz # None

\* an error of categories (a)-(c) has just been handled
ErrorHandled ==
    \/ frame.status = "error"
    \/ reply.status = "error"
    \/ warned

\* the handler of msg has produced the reply that handler produces
Answered ==
    CASE msg.kind = "chunk"          -> reply.status \in {"analyzed", "error"}
      [] msg.kind = "get_summary"    -> reply.status = "summary"
      [] msg.kind = "reset"          -> reply.status = "reset"
      [] msg.kind = "set_note_index" -> reply.status \in {"none", "error"}
      [] msg.kind = "set_tempo"      -> reply.status = "none"
      [] msg.kind = "other"          -> reply.status = "ok"
      [] OTHER                       -> reply.status = "error"

\* C17: a step that handles an error leaves the loop running, and so does the
\* step after it, which is answered by its own handler; the loop ends only on
\* a disconnect or a failed write.
C17_ErrorsNotFatal ==
    [][/\ (open /\ ErrorHandled') => open'
       /\ (open /\ ErrorHandled /\ msg'.kind \notin {"disconnect", "write_failure"})
            => (open' /\ Answered')
       /\ (open /\ ~open') => msg'.kind \in {"disconnect", "write_failure"}]_vars

\* a chunk analyzed right after the error frame of an undecodable chunk
C17_Witness ==
    /\ open
    /\ msg.kind = "chunk"
    /\ frame.status = "analyzed"
    /\ total_bytes = ChunkBytes(OddChunk) + 2 * ChunkSamples

\* C19: a JSON object whose command names none of the four commands, or that
\* has no command, is answered {"status": "ok"} and changes no field.
C19_UnknownCommandAcked ==
    [][msg'.kind = "other"
       => (/\ reply'.status = "ok"
           /\ UNCHANGED <<analyzer_vars, session_vars>>
           /\ open')]_vars

\* a payload with no command field acknowledged after a cursor move
C19_Witness ==
    /\ msg = Msg("other", Missing)
    /\ reply.status = "ok"
    /\ current_note_index = JInt(2)
    /\ total_bytes > 0

\* C20: in every verdict the level follows from |cents_off| by the bands
\* 10 / 25 / 50 / 100, is_right_note is |cents_off| <= 75, so the three best
\* levels are always the right note and very_poor never is.
C20_LevelFromCents ==
    frame.verdict.present =>
        LET v == frame.verdict
            a == IF v.cents_off < 0 THEN 0 - v.cents_off ELSE v.cents_off
        IN  /\ v.accuracy_level = "excellent" <=> a <= 10
            /\ v.accuracy_level = "good"      <=> (10 < a /\ a <= 25)
            /\ v.accuracy_level = "fair"      <=> (25 < a /\ a <= 50)
            /\ v.accuracy_level = "poor"      <=> (50 < a /\ a <= 100)
            /\ v.accuracy_level = "very_poor" <=> a > 100
            /\ v.is_right_note <=> a <= 75
            /\ v.accuracy_level \in {"excellent", "good", "fair"} => v.is_right_note
            /\ v.accuracy_level = "very_poor" => ~v.is_right_note

\* a fair verdict, between 25 and 50 cents sharp of the expected A4
C20_Witness ==
    /\ frame.verdict.present
    /\ frame.verdict.accuracy_level = "fair"
    /\ frame.verdict.is_right_note
    /\ frame.verdict.expected_pitch = "A4"

\* C13: the size of every collection of the session state stays within a
\* constant whatever the number of chunks: the RMS history within its window,
\* the sample buffer below the detection length, and the detected-pitch list
\* within the ten entries the summary reports.
C13_MemoryConstant ==
    /\ Len(rms_history) <= rms_window_size
    /\ BufLen(pitch_detection_buffer) < min_samples_for_pitch
    /\ Len(detected_pitches) <= summary_pitches

\* C14: after every ingest the RMS history holds at most rms_window_size
\* values, a full history having dropped its oldest value for the new one, and
\* the sample buffer holds fewer than min_samples_for_pitch samples.
C14_BuffersCapped ==
    [][/\ Len(rms_history') <= rms_window_size
       /\ BufLen(pitch_detection_buffer') < min_samples_for_pitch
       /\ (/\ frame'.status = "analyzed"
           /\ ~onset_detected
           /\ Len(rms_history) = rms_window_size)
          => rms_history' = Append(Tail(rms_history), frame'.rms)]_vars

\* the first note after fifty silent chunks has pushed the oldest value out
C14_Witness ==
    /\ Len(rms_history) = rms_window_size
    /\ heard
    /\ rms_history[1] = 0
    /\ rms_history[rms_window_size] > 0
    /\ total_bytes >= (rms_window_size + 1) * (ChunkSamples \div 2) * 2
    /\ BufLen(pitch_detection_buffer) = min_samples_for_pitch \div 2

\* C18: while every sample received has been zero, no frame reports an onset
\* or a pitch and the detected-pitch list stays empty.
C18_SilenceYieldsNothing ==
    ~heard =>
        /\ ~frame.onset_detected
        /\ frame.pitch_hz = None
        /\ ~onset_detected
        /\ fired_epoch = 0
        /\ detected_pitches = <<>>

\* a silence long enough for an onset decision, in chunks of mixed sizes,
\* with the pitch detector run on the last, oversized one
C18_Witness ==
    /\ ~heard
    /\ frame.status = "analyzed"
    /\ Len(rms_history) >= min_history
    /\ noise_floor < noise_floor_init
    /\ msg.arg.v = 2 * 3 * ChunkSamples
    /\ BufLen(pitch_detection_buffer) = min_samples_for_pitch \div 2

\* C15: with two connections interleaved handler by handler, a handler of one
\* connection leaves the session of the other exactly as it was, and resuming
\* a connection finds its session exactly as its own last handler left it; so
\* each session goes through the states, frames and replies of a run alone.
C15_SessionIsolation ==
    [][IF session' # session
       THEN parked' = Park /\ Park' = parked
       ELSE parked.connected => parked' = parked]_vars

\* two sessions of the same excerpt: this one has moved its cursor and has a
\* pitch on record, and its summary reports both after the other was reset
C15_Witness ==
    /\ parked.connected
    /\ parked.excerpt = "bound"
    /\ excerpt = "bound"
    /\ parked.msg.kind = "reset"
    /\ parked.fired_epoch = 0
    /\ reply.status = "summary"
    /\ reply.data.num_pitch_detections = 1
    /\ current_note_index = JInt(2)
    /\ reply.data.notes_played = JInt(2)

\* C21: the report lists the first min(10, n) pitches detected since creation
\* or the last reset, in detection order, its detection count is n, and its
\* total of bytes received is the sum of the byte lengths of the chunks
\* received in that period.
C21_ReportListsEpoch ==
    reply.status = "summary"
    => LET n == Len(epoch_pitches)
           shown == IF n < 10 THEN n ELSE 10
       IN  /\ Len(reply.data.detected_pitches) = shown
           /\ \A i \in 1..shown : reply.data.detected_pitches[i] = epoch_pitches[i]
           /\ reply.data.num_pitch_detections = n
           /\ reply.data.total_bytes_received = epoch_bytes

\* a report on eleven pitches of which the last differs from the first ten
C21_Witness ==
    /\ reply.status = "summary"
    /\ Len(epoch_pitches) = 11
    /\ epoch_pitches[11] # epoch_pitches[1]
    /\ epoch_bytes = NoteBytes

\* C22: on a non-empty chunk processed while no onset has fired, the onset
\* fires exactly when, on the updated history, floor and counter, the counter
\* is at least 6, the RMS exceeds 7 times the floor, the slope over the 8 most
\* recent values exceeds 0.015, at least 3 of the 4 most recent pairs increase
\* strictly, the history holds at least 20 values and the RMS exceeds 6 times
\* the floor; otherwise the frame reports no onset and the flag stays false.
C22_OnsetExactly ==
    [][(msg'.kind = "chunk" /\ ~onset_detected /\ frame'.status = "analyzed")
       => LET h == rms_history'
              n == Len(h)
              all == /\ consecutive_loud_frames' >= 6
                     /\ frame'.rms > 7 * noise_floor'
                     /\ n >= 8
                     /\ h[n] - h[n - 7] > 7 * 15 * 32768
                     /\ Cardinality({i \in 0..3 : h[n - i] > h[n - i - 1]}) >= 3
                     /\ n >= 20
                     /\ frame'.rms > 6 * noise_floor'
          IN  /\ frame'.onset_detected = all
              /\ onset_detected' = all]_vars

\* the onset fires on a chunk later than the twentieth, on the sixth loud frame
C22_Witness ==
    /\ frame.onset_detected
    /\ onset_detected
    /\ consecutive_loud_frames = 6
    /\ Len(rms_history) > 20

\* C23: the onset cannot fire on any of the first 19 non-empty chunks after
\* creation or a reset, whatever their loudness; the 20th is the earliest
\* whose frame can report it.
C23_NoEarlyOnset ==
    (frame.onset_detected \/ onset_detected) => epoch_chunks >= 20

\* in the epoch after a reset, the frame of the 20th chunk reports the onset
C23_Witness ==
    /\ fired_before
    /\ frame.onset_detected
    /\ epoch_chunks = 20

\* C24: once the onset has fired, every later chunk leaves the RMS history,
\* the noise floor, the loud-frame counter, the onset flag and the onset
\* timestamp unchanged, and so does every command but reset.
C24_OnsetStateFrozen ==
    [][(onset_detected /\ msg'.kind # "reset")
       => UNCHANGED <<rms_history, noise_floor, consecutive_loud_frames,
                      onset_detected, onset_time>>]_vars

\* a silent chunk analyzed after the onset: the counter keeps its value and
\* the history does not take the chunk's RMS
C24_Witness ==
    /\ onset_detected
    /\ ~frame.onset_detected
    /\ frame.status = "analyzed"
    /\ frame.rms = 0
    /\ consecutive_loud_frames >= 6
    /\ rms_history[Len(rms_history)] > 0

C26_PitchInRange ==
    /\ frame.pitch_hz # None => (50 * 100 <= frame.pitch_hz /\ frame.pitch_hz <= 2000 * 100)
    /\ \A i \in 1..Len(detected_pitches) :
          50 * 100 <= detected_pitches[i] /\ detected_pitches[i] <= 2000 * 100
    /\ (picked # None /\ (44100 > 2000 * picked \/ 44100 < 50 * picked))
          => frame.pitch_hz = None
    /\ (picked # None /\ frame.pitch_hz # None)
          => frame.pitch_hz = (44100 * 100) \div picked

\* the search settled on lag 22 in an audible buffer: no pitch in the frame
C26_Witness ==
    /\ picked = 22
    /\ frame.status = "analyzed"
    /\ frame.rms > 0
    /\ frame.pitch_hz = None
    /\ detected_pitches # <<>>

\* C27 as stated: the winning lag is the smallest lag of the searched range
\* that is a strict local maximum of the normalized autocorrelation above
\* 0.3; only if the range has none is it the global maximum of the range,
\* the lowest lag on ties.
C27_FirstLocalMaximum ==
    (correlation # <<>> /\ picked # None)
    => LET first == 22
           last == first + Len(correlation) - 3
           corr(lag) == correlation[lag - first + 2]
           IsPeak(lag) == /\ corr(lag) > corr(lag - 1)
                          /\ corr(lag) > corr(lag + 1)
                          /\ 10 * corr(lag) > 30
           peaks == {lag \in first..last : IsPeak(lag)}
       IN  IF peaks # {}
           THEN picked \in peaks /\ \A lag \in peaks : picked <= lag
           ELSE /\ picked \in first..last
                /\ \A lag \in first..last : corr(lag) <= corr(picked)
                /\ \A lag \in first..(picked - 1) : corr(lag) < corr(picked)

\* C27 amended: the candidates are the lags that exceed both neighbours
\* inside the searched range, so the first and the last lag of the range are
\* never candidates and win only as the global maximum.
C27_FirstInteriorMaximum ==
    (correlation # <<>> /\ picked # None)
    => LET first == 22
           last == first + Len(correlation) - 3
           corr(lag) == correlation[lag - first + 2]
           IsPeak(lag) == /\ corr(lag) > corr(lag - 1)
                          /\ corr(lag) > corr(lag + 1)
                          /\ 10 * corr(lag) > 30
           peaks == {lag \in (first + 1)..(last - 1) : IsPeak(lag)}
       IN  IF peaks # {}
           THEN picked \in peaks /\ \A lag \in peaks : picked <= lag
           ELSE /\ picked \in first..last
                /\ \A lag \in first..last : corr(lag) <= corr(picked)
                /\ \A lag \in first..(picked - 1) : corr(lag) < corr(picked)

\* the search passes over a peak at the first lag of the range and over the
\* larger value at the last one, and settles on the peak at lag 24
C27_Witness ==
    /\ correlation = <<2, 4, 2, 4, 3, 5>>
    /\ picked = 24

\* C28: a verdict's note index is the cursor at the time its chunk is
\* evaluated, with the pitch and frequency of the expected note at that
\* index; the cursor is the index of the last set_note_index that was in
\* range (or 0 after a reset), an out-of-range one leaves it alone, and a
\* chunk never moves it.
C28_VerdictAtCursor ==
    [][/\ msg'.kind = "chunk"
          => /\ current_note_index' = current_note_index
             /\ frame'.verdict.present
                  => /\ current_note_index.t = "int"
                     /\ frame'.verdict.current_note_index = current_note_index.v
                     /\ frame'.verdict.expected_pitch
                           = expected_notes[current_note_index.v + 1].pitch
                     /\ frame'.verdict.expected_frequency
                           = expected_notes[current_note_index.v + 1].frequency
       /\ (msg'.kind = "set_note_index" /\ msg'.arg.t = "int")
          => current_note_index' =
                IF 0 <= msg'.arg.v /\ msg'.arg.v < Len(expected_notes)
                THEN msg'.arg ELSE current_note_index
       /\ msg'.kind = "reset" => current_note_index' = JInt(0)]_vars

\* a verdict against the second note of the excerpt
C28_Witness ==
    /\ frame.verdict.present
    /\ frame.verdict.current_note_index = 1
    /\ frame.verdict.expected_pitch = "E5"
    /\ current_note_index = JInt(1)

\* C29: in every reachable state the cursor is an integer with
\* 0 <= cursor < length of the expected notes, or 0 when there are none, so
\* reading the expected note at the cursor never faults.
C29_CursorInvariant ==
    /\ current_note_index.t = "int"
    /\ IF expected_notes = <<>> THEN current_note_index.v = 0
       ELSE 0 <= current_note_index.v /\ current_note_index.v < Len(expected_notes)

\* C30: between creation or a reset and the next reset at most one frame
\* reports onset_detected = true; on that frame the onset flag is true and
\* the onset timestamp is the frame's timestamp; and the onset timestamp is
\* set exactly when the flag is true.
C30_OnsetPerEpoch ==
    /\ fired_epoch <= 1
    /\ frame.onset_detected
          => /\ onset_detected
             /\ fired_epoch = 1
             /\ onset_time = frame.timestamp_seconds
    /\ onset_detected = (onset_time # None)
    /\ fired_epoch = 1 => onset_detected

\* the onset frame of a second epoch, later in its epoch than the first was
C30_Witness ==
    /\ fired_before
    /\ fired_epoch = 1
    /\ frame.onset_detected
    /\ onset_time = frame.timestamp_seconds
    /\ onset_time = epoch_timestamp
    /\ epoch_chunks > 20

====
